---- MODULE Spec2Model ----
(***************************************************************************)
(* A model of the watcherStore of use-watcher-map: the path codec of       *)
(* object.ts (getDeepPath, setDeepPathClone, deleteDeepPathClone) and the  *)
(* store of watcherStore.ts (subscriber registry, notification engine,     *)
(* batch, mount hooks).                                                    *)
(*                                                                         *)
(* Encoding.                                                               *)
(*  - A JavaScript string that is used as a path is a sequence of          *)
(*    one-character strings, so that String.prototype.startsWith and       *)
(*    split('.') are computed character by character as the engine does.   *)
(*  - A value of the tree is a tagged record: Undefined, Num(n) or         *)
(*    Obj(kv), kv a function from the present keys (split segments) to     *)
(*    values.  Values are compared by content.                             *)
(*  - A subscriber callback is an identity (a string); an invocation       *)
(*    fn(arg) is the record [fn |-> fn, arg |-> arg] appended to the calls *)
(*    of the operation that runs it.                                       *)
(***************************************************************************)
EXTENDS Integers, Sequences, FiniteSets, TLC

VARIABLES
  state,          \* let state = defaultValue
  subscribers,    \* let subscribers: { path?: string; fn: Function }[]
  batching,       \* batchedUpdates !== null
  batchedUpdates, \* the list batchedUpdates holds while it is not null
  onMountFn,      \* let onMountFn
  onUnmountFn,    \* let onUnmountFn
  inBatchFn,      \* a batch call is on the stack, executing its fn
  issued,         \* history: the mutation calls behind batchedUpdates
  mounted,        \* history: what the mount of the current cycle returned
  heap,           \* the objects of the JavaScript heap, by address
  root,           \* the reference `state` holds
  map,            \* the refs of a useWatcherMap given the same calls
  stack,          \* the notification rounds in progress, innermost last
  last            \* history: the last call of the public surface

vars == <<state, subscribers, batching, batchedUpdates, onMountFn,
          onUnmountFn, inBatchFn, issued, mounted, heap, root, map, stack,
          last>>

\* the variables of the specifications that tell objects apart by reference
refs == <<heap, root>>

(***************************************************************************)
(* Bounds and input sets                                                   *)
(***************************************************************************)
\* most pending entries a batch may accumulate
MaxBatch == 2
\* most objects the heap may hold when a call that creates objects starts
MaxHeap == 7
\* most notification rounds that may be nested in one another
MaxDepth == 3

NULL == "null"

\* value encodings
Undefined == [t |-> "undefined"]
Num(n) == [t |-> "num", n |-> n]
Obj(kv) == [t |-> "obj", kv |-> kv]
EmptyObj == Obj(<<>>)

\* path strings, one character per element
Dot == "."
P_a == <<"a">>
P_b == <<"b">>
P_a1 == <<"a", ".", "1">>
P_a10 == <<"a", ".", "1", "0">>
P_b1 == <<"b", ".", "1">>
P_a1b == <<"a", ".", "1", ".", "b">>
\* subscriber.path is undefined (or ''): the falsy branch of `if (subscriber.path)`
NoPath == <<>>

\* keys of objects; K_a1 is the one key "a.1", a key that holds a dot
K_a == <<"a">>
K_b == <<"b">>
K_1 == <<"1">>
K_10 == <<"1", "0">>
K_a1 == <<"a", ".", "1">>

(***************************************************************************)
(* JavaScript string and object primitives                                 *)
(***************************************************************************)
\* String.prototype.startsWith
startsWith(s, prefix) ==
  /\ Len(prefix) <= Len(s)
  /\ SubSeq(s, 1, Len(prefix)) = prefix

\* String.prototype.split('.'): the segments between the dots
RECURSIVE splitFrom(_, _, _)
splitFrom(str, i, cur) ==
  IF i > Len(str) THEN <<cur>>
  ELSE IF str[i] = Dot THEN <<cur>> \o splitFrom(str, i + 1, <<>>)
  ELSE splitFrom(str, i + 1, Append(cur, str[i]))

split(str) == splitFrom(str, 1, <<>>)

\* typeof v === 'object' (for the values of the model)
typeofObject(v) == v.t = "obj"

\* obj[key]
Prop(obj, key) ==
  IF obj.t = "obj" /\ key \in DOMAIN obj.kv THEN obj.kv[key] ELSE Undefined

\* key in obj
HasKey(obj, key) == obj.t = "obj" /\ key \in DOMAIN obj.kv

\* result[key] = value
Put(obj, key, value) ==
  Obj([k \in DOMAIN obj.kv \cup {key} |->
        IF k = key THEN value ELSE obj.kv[k]])

\* delete result[key]
Del(obj, key) == Obj([k \in DOMAIN obj.kv \ {key} |-> obj.kv[k]])

\* Object.keys(value), in one canonical order (the engine only tests the
\* keys for membership and scans them until the first match)
KeyOrder == <<K_1, K_10, K_a, K_a1, K_b>>

RECURSIVE keysFrom(_, _)
keysFrom(obj, i) ==
  IF i > Len(KeyOrder) THEN <<>>
  ELSE (IF HasKey(obj, KeyOrder[i]) THEN <<KeyOrder[i]>> ELSE <<>>)
       \o keysFrom(obj, i + 1)

ObjectKeys(obj) == keysFrom(obj, 1)

(***************************************************************************)
(* object.ts                                                               *)
(***************************************************************************)
\* copyObj: { ...obj } (the model holds no arrays)
copyObj(obj) == IF obj.t = "obj" THEN obj ELSE EmptyObj

\* mutant of setDeepPathClone: a value that is there and is not an object is
\* not replaced on the way down
RECURSIVE setDeepPathCloneKeeps(_, _, _)
setDeepPathCloneKeeps(obj, paths, value) ==
  IF Len(paths) = 0 \/ ~typeofObject(obj) THEN obj
  ELSE
    LET first == Head(paths)
        rest == Tail(paths)
    IN IF Len(rest) = 0
       THEN Put(obj, first, value)
       ELSE Put(obj, first,
                setDeepPathCloneKeeps(
                  IF Prop(obj, first) # Undefined THEN Prop(obj, first)
                  ELSE EmptyObj,
                  rest, value))

RECURSIVE setDeepPathClone(_, _, _)
setDeepPathClone(obj, paths, value) ==
  IF Len(paths) = 0 THEN obj
  ELSE
    LET first == Head(paths)
        rest == Tail(paths)
        result == copyObj(obj)
    IN IF Len(rest) = 0
       THEN Put(result, first, value)
       ELSE
         LET existingValue ==
               IF Prop(obj, first) # Undefined THEN Prop(obj, first)
               ELSE EmptyObj
         IN Put(result, first,
                setDeepPathClone(
                  IF typeofObject(existingValue) THEN copyObj(existingValue)
                  ELSE EmptyObj,
                  rest, value))

RECURSIVE getDeepPath(_, _)
getDeepPath(obj, paths) ==
  IF obj = Undefined \/ Len(paths) = 0 THEN Undefined
  ELSE
    LET first == Head(paths)
        rest == Tail(paths)
        result == Prop(obj, first)
    IN IF Len(rest) = 0 THEN result ELSE getDeepPath(result, rest)

\* mutant of deleteDeepPathClone: with removeEmptyObjects the object above a
\* deletion is removed whether or not it is left empty
RECURSIVE deleteDeepPathClonePrunes(_, _, _)
deleteDeepPathClonePrunes(obj, paths, removeEmptyObjects) ==
  IF Len(paths) = 0 THEN obj
  ELSE
    LET first == Head(paths)
        rest == Tail(paths)
    IN IF ~HasKey(obj, first) THEN obj
       ELSE IF Len(rest) = 0 THEN Del(obj, first)
       ELSE
         LET nestedValue == Prop(obj, first) IN
         IF ~typeofObject(nestedValue) THEN obj
         ELSE
           LET newNestedValue ==
                 deleteDeepPathClonePrunes(nestedValue, rest,
                                           removeEmptyObjects)
           IN IF newNestedValue = nestedValue THEN obj
              ELSE IF removeEmptyObjects THEN Del(obj, first)
              ELSE Put(obj, first, newNestedValue)

\* A deletion below always removes a key, so the recursive result is the same
\* reference exactly when it has the same content.
RECURSIVE deleteDeepPathClone(_, _, _)
deleteDeepPathClone(obj, paths, removeEmptyObjects) ==
  IF Len(paths) = 0 THEN obj
  ELSE
    LET first == Head(paths)
        rest == Tail(paths)
    IN IF ~HasKey(obj, first) THEN obj
       ELSE IF Len(rest) = 0 THEN Del(copyObj(obj), first)
       ELSE
         LET nestedValue == Prop(obj, first) IN
         IF ~typeofObject(nestedValue) THEN obj
         ELSE
           LET newNestedValue ==
                 deleteDeepPathClone(nestedValue, rest, removeEmptyObjects)
           IN IF newNestedValue = nestedValue THEN obj
              ELSE IF removeEmptyObjects
                      /\ Len(ObjectKeys(newNestedValue)) = 0
                   THEN Del(copyObj(obj), first)
                   ELSE Put(copyObj(obj), first, newNestedValue)

\* every segment of the path is a key of the object reached so far
RECURSIVE hasPath(_, _)
hasPath(obj, paths) ==
  /\ HasKey(obj, Head(paths))
  /\ \/ Len(paths) = 1
     \/ hasPath(Prop(obj, Head(paths)), Tail(paths))

(***************************************************************************)
(* object.ts, with references: an object is an address of the heap, the    *)
(* heap holds at each address the properties of the object, and a property *)
(* is a primitive or a reference Ref(a).  An operator takes the heap and   *)
(* returns the heap it leaves with its value: [h |-> heap, v |-> value].   *)
(***************************************************************************)
Ref(a) == [t |-> "ref", a |-> a]
NoProps == <<>>

\* typeof v === 'object'
typeofRef(v) == v.t = "ref"

Ret(h, v) == [h |-> h, v |-> v]

\* obj[key], key in obj
PropRef(h, obj, key) ==
  IF typeofRef(obj) /\ key \in DOMAIN h[obj.a] THEN h[obj.a][key]
  ELSE Undefined

HasKeyRef(h, obj, key) == typeofRef(obj) /\ key \in DOMAIN h[obj.a]

\* obj[key] = value: the object at the address of obj is changed in place
PutRef(h, obj, key, value) ==
  [h EXCEPT ![obj.a] = [k \in DOMAIN h[obj.a] \cup {key} |->
                         IF k = key THEN value ELSE h[obj.a][k]]]

\* delete obj[key]: in place
DelRef(h, obj, key) ==
  [h EXCEPT ![obj.a] = [k \in DOMAIN h[obj.a] \ {key} |-> h[obj.a][k]]]

\* {}: a new object
newObj(h) == Ret(Append(h, NoProps), Ref(Len(h) + 1))

\* the object literal a caller writes: a new object for `value` and for
\* each object below it, key after key
RECURSIVE literal(_, _)
RECURSIVE literalProps(_, _, _, _)
literalProps(h, obj, value, keys) ==
  IF Len(keys) = 0 THEN h
  ELSE LET prop == literal(h, value.kv[Head(keys)])
       IN literalProps(PutRef(prop.h, obj, Head(keys), prop.v), obj, value,
                       Tail(keys))

literal(h, value) ==
  IF ~typeofObject(value) THEN Ret(h, value)
  ELSE LET obj == newObj(h)
       IN Ret(literalProps(obj.h, obj.v, value, ObjectKeys(value)), obj.v)

\* the content of a value: the tree its references lead to
RECURSIVE content(_, _)
content(h, v) ==
  IF typeofRef(v) THEN Obj([k \in DOMAIN h[v.a] |-> content(h, h[v.a][k])])
  ELSE v

\* mutant of copyObjRef: the objects below obj are copied as well
copyObjRefDeep(h, obj) ==
  IF typeofRef(obj) THEN literal(h, content(h, obj)) ELSE newObj(h)

\* mutant of copyObjRef: the object itself is returned, not a copy
copyObjRefAlias(h, obj) == IF typeofRef(obj) THEN Ret(h, obj) ELSE newObj(h)

\* copyObj: { ...obj }, a new object with the properties of obj
copyObjRef(h, obj) ==
  IF typeofRef(obj) THEN Ret(Append(h, h[obj.a]), Ref(Len(h) + 1))
  ELSE newObj(h)

RECURSIVE setDeepPathCloneRef(_, _, _, _)
setDeepPathCloneRef(h, obj, paths, value) ==
  IF Len(paths) = 0 THEN Ret(h, obj)
  ELSE
    LET first == Head(paths)
        rest == Tail(paths)
        result == copyObjRef(h, obj)
    IN IF Len(rest) = 0
       THEN Ret(PutRef(result.h, result.v, first, value), result.v)
       ELSE
         LET existingValue ==
               IF PropRef(result.h, obj, first) # Undefined
               THEN Ret(result.h, PropRef(result.h, obj, first))
               ELSE newObj(result.h)
             arg == IF typeofRef(existingValue.v)
                    THEN copyObjRef(existingValue.h, existingValue.v)
                    ELSE newObj(existingValue.h)
             nested == setDeepPathCloneRef(arg.h, arg.v, rest, value)
         IN Ret(PutRef(nested.h, result.v, first, nested.v), result.v)

RECURSIVE getDeepPathRef(_, _, _)
getDeepPathRef(h, obj, paths) ==
  IF obj = Undefined \/ Len(paths) = 0 THEN Undefined
  ELSE
    LET first == Head(paths)
        rest == Tail(paths)
        result == PropRef(h, obj, first)
    IN IF Len(rest) = 0 THEN result ELSE getDeepPathRef(h, result, rest)

\* mutant of deleteDeepPathCloneRef: the object is cloned before the tests
\* that return the original, and the clone is what they return
RECURSIVE deleteDeepPathCloneEager(_, _, _, _)
deleteDeepPathCloneEager(h, obj, paths, removeEmptyObjects) ==
  IF Len(paths) = 0 THEN Ret(h, obj)
  ELSE
    LET first == Head(paths)
        rest == Tail(paths)
        result == copyObjRef(h, obj)
    IN IF ~HasKeyRef(h, obj, first) THEN result
       ELSE IF Len(rest) = 0
       THEN Ret(DelRef(result.h, result.v, first), result.v)
       ELSE
         LET nestedValue == PropRef(h, obj, first) IN
         IF ~typeofRef(nestedValue) THEN result
         ELSE
           LET newNestedValue ==
                 deleteDeepPathCloneEager(result.h, nestedValue, rest,
                                          removeEmptyObjects)
           IN IF removeEmptyObjects
                 /\ DOMAIN newNestedValue.h[newNestedValue.v.a] = {}
              THEN Ret(DelRef(newNestedValue.h, result.v, first), result.v)
              ELSE Ret(PutRef(newNestedValue.h, result.v, first,
                              newNestedValue.v), result.v)

RECURSIVE deleteDeepPathCloneRef(_, _, _, _)
deleteDeepPathCloneRef(h, obj, paths, removeEmptyObjects) ==
  IF Len(paths) = 0 THEN Ret(h, obj)
  ELSE
    LET first == Head(paths)
        rest == Tail(paths)
    IN IF ~HasKeyRef(h, obj, first) THEN Ret(h, obj)
       ELSE IF Len(rest) = 0
       THEN LET result == copyObjRef(h, obj)
            IN Ret(DelRef(result.h, result.v, first), result.v)
       ELSE
         LET nestedValue == PropRef(h, obj, first) IN
         IF ~typeofRef(nestedValue) THEN Ret(h, obj)
         ELSE
           LET newNestedValue ==
                 deleteDeepPathCloneRef(h, nestedValue, rest,
                                        removeEmptyObjects)
           IN IF newNestedValue.v = nestedValue THEN Ret(h, obj)
              ELSE
                LET result == copyObjRef(newNestedValue.h, obj)
                IN IF removeEmptyObjects
                      /\ DOMAIN result.h[newNestedValue.v.a] = {}
                   THEN Ret(DelRef(result.h, result.v, first), result.v)
                   ELSE Ret(PutRef(result.h, result.v, first,
                                   newNestedValue.v), result.v)

(***************************************************************************)
(* watcherStore.ts: the notification engine                                *)
(***************************************************************************)
\* const childPathMatch = subscriber.path.startsWith(notifyPath)
childPathMatch(subscriberPath, notifyPath) ==
  startsWith(subscriberPath, notifyPath)

\* mutant of parentPathMatch: the check for parent matches is missing
noParentPathMatch(subscriberPath, notifyPath) == FALSE

\* const parentPathMatch = notifyPath.startsWith(subscriber.path)
parentPathMatch(subscriberPath, notifyPath) ==
  startsWith(notifyPath, subscriberPath)

\* subscriber.fn(arg)
Call(fn, arg) == [fn |-> fn, arg |-> arg]

\* mutant of scanPaths: the `break` after a match is missing
RECURSIVE scanPathsNoBreak(_, _, _, _)
scanPathsNoBreak(subscriber, value, paths, i) ==
  IF i > Len(paths) THEN <<>>
  ELSE (IF \/ startsWith(subscriber.path, paths[i])
           \/ startsWith(paths[i], subscriber.path)
        THEN <<[fn |-> subscriber.fn,
                arg |-> getDeepPath(value, split(subscriber.path))]>>
        ELSE <<>>)
       \o scanPathsNoBreak(subscriber, value, paths, i + 1)

\* for (const notifyPath of paths) { ... break; }, from the i-th path on
RECURSIVE scanPaths(_, _, _, _)
scanPaths(subscriber, value, paths, i) ==
  IF i > Len(paths) THEN <<>>
  ELSE IF childPathMatch(subscriber.path, paths[i])
       THEN <<Call(subscriber.fn, getDeepPath(value, split(subscriber.path)))>>
  ELSE IF parentPathMatch(subscriber.path, paths[i])
       THEN <<Call(subscriber.fn, getDeepPath(value, split(subscriber.path)))>>
  ELSE scanPaths(subscriber, value, paths, i + 1)

\* mutant of notifyOne: the else branch that serves the subscribers without
\* a path is missing
notifyOnePathScoped(subscriber, value, paths) ==
  IF subscriber.path # NoPath
  THEN scanPaths(subscriber, value, paths, 1)
  ELSE <<>>

\* the body of `for (const subscriber of subscribers)`
notifyOne(subscriber, value, paths) ==
  IF subscriber.path # NoPath
  THEN scanPaths(subscriber, value, paths, 1)
  ELSE <<Call(subscriber.fn, value)>>

\* for (const subscriber of subscribers) { ... }: the invocations, in order
RECURSIVE notifyRound(_, _, _)
notifyRound(subs, value, paths) ==
  IF Len(subs) = 0 THEN <<>>
  ELSE notifyOne(Head(subs), value, paths)
       \o notifyRound(Tail(subs), value, paths)

\* a pending entry { value, paths }
Entry(value, paths) == [value |-> value, paths |-> paths]

\* paths.includes(p)
includes(paths, p) == \E i \in 1..Len(paths) : paths[i] = p

\* updates.some(u => u.paths.every(p => update.paths.includes(p)))
covered(updates, update) ==
  \E j \in 1..Len(updates) :
    \A k \in 1..Len(updates[j].paths) :
      includes(update.paths, updates[j].paths[k])

\* for (let i = batchedUpdates.length - 1; i >= 0; i--) { ... }
RECURSIVE collectUpdates(_, _, _)
collectUpdates(entries, i, updates) ==
  IF i < 1 THEN updates
  ELSE collectUpdates(entries, i - 1,
         IF ~covered(updates, entries[i]) THEN Append(updates, entries[i])
         ELSE updates)

\* mutant of uniqueUpdates: every entry is kept, none is taken as a repeat
RECURSIVE keepAllUpdates(_)
keepAllUpdates(entries) ==
  IF Len(entries) = 0 THEN <<>>
  ELSE Append(keepAllUpdates(Tail(entries)), Head(entries))

\* the list `updates` batch builds from batchedUpdates
uniqueUpdates(entries) == collectUpdates(entries, Len(entries), <<>>)

\* updates.forEach(({ value, paths }) => notifySubscribers(value, paths))
RECURSIVE dispatchUpdates(_, _)
dispatchUpdates(subs, updates) ==
  IF Len(updates) = 0 THEN <<>>
  ELSE notifyRound(subs, Head(updates).value, Head(updates).paths)
       \o dispatchUpdates(subs, Tail(updates))

(***************************************************************************)
(* The callers: what the environment passes to the public surface          *)
(***************************************************************************)
\* subscriber callbacks
Fns == {"f1", "f2"}

\* the paths subscribers watch and mutations write: a key, two of its
\* children of which one's name starts with the other's, and a second key
Paths == {P_a, P_a1, P_a10, P_b}

\* the values setPath writes
Vals == {Num(1), Num(2)}

\* the values setState installs: no key, two keys, and two keys of which
\* one ("a.1") names a path below the other
StateVals == {EmptyObj, Obj((K_a :> Num(1)) @@ (K_b :> Num(2)))}
DottedVal == Obj((K_a :> Obj(K_1 :> Num(1))) @@ (K_a1 :> Num(2)))

\* the smaller sets of the batch specification
BatchSubPaths == {NoPath, P_a, P_b}
BatchPaths == {P_a, P_a1}

\* the value the store is constructed with
DefaultValue == Obj(K_a :> Obj(K_1 :> Num(1)))

\* mount functions: "m1" returns the unmount function "u1", "m2" returns
\* nothing, "m3" returns the unmount function "u3"
MountFns == {"m1", "m2", "m3"}
MountReturn(fn) ==
  IF fn = "m1" THEN "u1" ELSE IF fn = "m3" THEN "u3" ELSE NULL

\* the smaller sets of the mount specification
MountSubPaths == {NoPath, P_a}
MountPaths == {P_a}

(***************************************************************************)
(* watcherStore.ts: the store                                              *)
(***************************************************************************)
\* what a call threw
NoError == "none"
BatchError == "Cannot batch updates inside a batch"
FnError == "thrown by fn"

\* the record of a call of the public surface: what it was, the subscriber
\* invocations it made (in order), the hooks it ran, what it threw, and for
\* a batch the pending entries and mutation calls its fn left behind;
\* `changed` tells whether it left another state tree or subscriber list,
\* `existed` whether the path of a setPath or clearPath was there before
Last(op, path, calls, hooks, error, pending, ops, changed) ==
  [op |-> op, path |-> path, calls |-> calls, hooks |-> hooks,
   error |-> error, pending |-> pending, ops |-> ops, changed |-> changed,
   existed |-> op \in {"setPath", "clearPath"}
               /\ hasPath(state, split(path))]

Mutation(op, path, value) == [op |-> op, path |-> path, value |-> value]

\* mutant of notifySubscribers: the `if (batchedUpdates)` deferral is missing
notifyWithoutDeferral(value, paths, m) ==
  /\ batchedUpdates' = batchedUpdates
  /\ issued' = issued
  /\ last' = Last(m.op, m.path, notifyRound(subscribers, value, paths),
                  <<>>, NoError, <<>>, <<>>, value # state)

\* mutant of notifySubscribers: the notification is always queued for later
notifyLater(value, paths, m) ==
  /\ batchedUpdates' = Append(batchedUpdates, Entry(value, paths))
  /\ issued' = Append(issued, m)
  /\ last' = Last(m.op, m.path, <<>>, <<>>, NoError, <<>>, <<>>,
                  value # state)

\* notifySubscribers(value, paths), called by the mutation `m`
notifySubscribers(value, paths, m) ==
  IF batching
  THEN /\ batchedUpdates' = Append(batchedUpdates, Entry(value, paths))
       /\ issued' = Append(issued, m)
       /\ last' = Last(m.op, m.path, <<>>, <<>>, NoError, <<>>, <<>>,
                       value # state)
  ELSE /\ batchedUpdates' = batchedUpdates
       /\ issued' = issued
       /\ last' = Last(m.op, m.path, notifyRound(subscribers, value, paths),
                       <<>>, NoError, <<>>, <<>>, value # state)

(***************************************************************************)
(* useWatcherMap.tsx: the hook, as a record of its refs (state.current,    *)
(* subscribers.current, batchedUpdates.current) with the invocations and   *)
(* the error of its last call; each operator is one call on that record.   *)
(***************************************************************************)
useWatcherMap(defaultValue) ==
  [state |-> defaultValue, subscribers |-> <<>>, batching |-> FALSE,
   batchedUpdates |-> <<>>, calls |-> <<>>, error |-> NoError]

\* the record after a call that invoked `calls` and threw `error`
Returned(m, calls, error) == [m EXCEPT !.calls = calls, !.error = error]

mapAddSubscriber(m, fn, path) ==
  Returned(
    IF ~\E i \in 1..Len(m.subscribers) : m.subscribers[i].fn = fn
    THEN [m EXCEPT !.subscribers = Append(@, [path |-> path, fn |-> fn])]
    ELSE m,
    <<>>, NoError)

mapRemoveSubscriber(m, fn) ==
  Returned(
    [m EXCEPT !.subscribers = SelectSeq(@, LAMBDA sub : sub.fn # fn)],
    <<>>, NoError)

mapNotifySubscribers(m, value, paths) ==
  IF m.batching
  THEN Returned([m EXCEPT !.batchedUpdates = Append(@, Entry(value, paths))],
                <<>>, NoError)
  ELSE Returned(m, notifyRound(m.subscribers, value, paths), NoError)

mapSetState(m, value) ==
  mapNotifySubscribers([m EXCEPT !.state = value], value, ObjectKeys(value))

mapSetPath(m, path, value) ==
  LET pathParts == split(path)
      newState == setDeepPathClone(
                    IF m.state = Undefined THEN EmptyObj ELSE m.state,
                    pathParts, value)
  IN mapNotifySubscribers([m EXCEPT !.state = newState], newState, <<path>>)

\* mutant of mapClearPath: nothing is notified when the state is left as it
\* was
mapClearPathQuiet(m, path, removeEmptyObjects) ==
  IF m.state = Undefined THEN Returned(m, <<>>, NoError)
  ELSE LET pathParts == split(path)
           newState ==
             deleteDeepPathClone(m.state, pathParts, removeEmptyObjects)
       IN IF newState = m.state THEN Returned(m, <<>>, NoError)
          ELSE mapNotifySubscribers([m EXCEPT !.state = newState], newState,
                                    <<path>>)

mapClearPath(m, path, removeEmptyObjects) ==
  IF m.state = Undefined THEN Returned(m, <<>>, NoError)
  ELSE LET pathParts == split(path)
           newState ==
             deleteDeepPathClone(m.state, pathParts, removeEmptyObjects)
       IN mapNotifySubscribers([m EXCEPT !.state = newState], newState,
                               <<path>>)

\* batch(fn) up to the call of fn, or its throw when a batch is open
mapBatch(m) ==
  IF m.batching THEN Returned(m, <<>>, BatchError)
  ELSE Returned([m EXCEPT !.batching = TRUE, !.batchedUpdates = <<>>],
                <<>>, NoError)

\* fn has returned: the rest of batch(fn)
mapBatchReturn(m) ==
  LET updates == uniqueUpdates(m.batchedUpdates)
  IN Returned([m EXCEPT !.batching = FALSE, !.batchedUpdates = <<>>],
              dispatchUpdates(m.subscribers, updates), NoError)

\* fn throws: the exception leaves batch(fn) at `fn();`
mapBatchThrow(m) == Returned(m, <<>>, FnError)

Init ==
  /\ state = DefaultValue
  /\ subscribers = <<>>
  /\ batching = FALSE
  /\ batchedUpdates = <<>>
  /\ onMountFn = NULL
  /\ onUnmountFn = NULL
  /\ inBatchFn = FALSE
  /\ issued = <<>>
  /\ mounted = NULL
  /\ LET value == literal(<<>>, DefaultValue)
     IN heap = value.h /\ root = value.v
  /\ map = useWatcherMap(DefaultValue)
  /\ stack = <<>>
  /\ last = Last("create", NoPath, <<>>, <<>>, NoError, <<>>, <<>>, FALSE)

\* room for one more pending entry
Room == batching => Len(batchedUpdates) < MaxBatch

\* mutant of addSubscriber: `subscribers.length === 0` is missing from the
\* condition of the mount
addSubscriberMountsEach(fn, path) ==
  LET mounts == onMountFn # NULL
      returnValue == IF mounts THEN MountReturn(onMountFn) ELSE NULL
  IN /\ onUnmountFn' = IF returnValue # NULL THEN returnValue ELSE onUnmountFn
     /\ subscribers' =
          IF ~\E i \in 1..Len(subscribers) : subscribers[i].fn = fn
          THEN Append(subscribers, [path |-> path, fn |-> fn])
          ELSE subscribers
     /\ mounted' = IF Len(subscribers) = 0 THEN returnValue ELSE mounted
     /\ last' = Last("addSubscriber", path, <<>>,
                     IF mounts THEN <<onMountFn>> ELSE <<>>,
                     NoError, <<>>, <<>>, subscribers' # subscribers)
     /\ UNCHANGED <<state, batching, batchedUpdates, onMountFn, inBatchFn,
                    issued>>

\* mutant of addSubscriber: the `!subscribers.some(...)` guard of the push is
\* missing
addSubscriberAlways(fn, path) ==
  LET mounts == Len(subscribers) = 0 /\ onMountFn # NULL
      returnValue == IF mounts THEN MountReturn(onMountFn) ELSE NULL
  IN /\ onUnmountFn' = IF returnValue # NULL THEN returnValue ELSE onUnmountFn
     /\ subscribers' = Append(subscribers, [path |-> path, fn |-> fn])
     /\ mounted' = IF Len(subscribers) = 0 THEN returnValue ELSE mounted
     /\ last' = Last("addSubscriber", path, <<>>,
                     IF mounts THEN <<onMountFn>> ELSE <<>>,
                     NoError, <<>>, <<>>, TRUE)
     /\ UNCHANGED <<state, batching, batchedUpdates, onMountFn, inBatchFn,
                    issued>>

addSubscriber(fn, path) ==
  LET mounts == Len(subscribers) = 0 /\ onMountFn # NULL
      returnValue == IF mounts THEN MountReturn(onMountFn) ELSE NULL
  IN /\ onUnmountFn' = IF returnValue # NULL THEN returnValue ELSE onUnmountFn
     /\ subscribers' =
          IF ~\E i \in 1..Len(subscribers) : subscribers[i].fn = fn
          THEN Append(subscribers, [path |-> path, fn |-> fn])
          ELSE subscribers
     /\ mounted' = IF Len(subscribers) = 0 THEN returnValue ELSE mounted
     /\ last' = Last("addSubscriber", path, <<>>,
                     IF mounts THEN <<onMountFn>> ELSE <<>>,
                     NoError, <<>>, <<>>, subscribers' # subscribers)
     /\ UNCHANGED <<state, batching, batchedUpdates, onMountFn, inBatchFn,
                    issued>>

\* mutant of removeSubscriber: the last entry is dropped, whose callback
\* need not be fn
removeSubscriberLast(fn) ==
  LET filtered == IF Len(subscribers) = 0 THEN subscribers
                  ELSE SubSeq(subscribers, 1, Len(subscribers) - 1)
      unmounts == Len(filtered) = 0 /\ onUnmountFn # NULL
  IN /\ subscribers' = filtered
     /\ last' = Last("removeSubscriber", NoPath, <<>>,
                     IF unmounts THEN <<onUnmountFn>> ELSE <<>>,
                     NoError, <<>>, <<>>, filtered # subscribers)
     /\ UNCHANGED <<state, batching, batchedUpdates, onMountFn, onUnmountFn,
                    inBatchFn, issued, mounted>>

removeSubscriber(fn) ==
  LET filtered == SelectSeq(subscribers, LAMBDA sub : sub.fn # fn)
      unmounts == Len(filtered) = 0 /\ onUnmountFn # NULL
  IN /\ subscribers' = filtered
     /\ last' = Last("removeSubscriber", NoPath, <<>>,
                     IF unmounts THEN <<onUnmountFn>> ELSE <<>>,
                     NoError, <<>>, <<>>, filtered # subscribers)
     /\ UNCHANGED <<state, batching, batchedUpdates, onMountFn, onUnmountFn,
                    inBatchFn, issued, mounted>>

\* mutant of onMount: a mount function that is already kept is not replaced
onMountKeepsFirst(fn) ==
  /\ onMountFn' = IF onMountFn = NULL THEN fn ELSE onMountFn
  /\ last' = Last("onMount", NoPath, <<>>, <<>>, NoError, <<>>, <<>>, FALSE)
  /\ UNCHANGED <<state, subscribers, batching, batchedUpdates, onUnmountFn,
                 inBatchFn, issued, mounted>>

onMount(fn) ==
  /\ onMountFn' = fn
  /\ last' = Last("onMount", NoPath, <<>>, <<>>, NoError, <<>>, <<>>, FALSE)
  /\ UNCHANGED <<state, subscribers, batching, batchedUpdates, onUnmountFn,
                 inBatchFn, issued, mounted>>

\* the keys of `value`, from the i-th on, whose value differs from the one
\* the state holds
RECURSIVE differingKeys(_, _, _)
differingKeys(value, keys, i) ==
  IF i > Len(keys) THEN <<>>
  ELSE (IF Prop(state, keys[i]) # Prop(value, keys[i]) THEN <<keys[i]>>
        ELSE <<>>)
       \o differingKeys(value, keys, i + 1)

\* mutant of setState: only the keys whose value differs are reported
setStateDiffering(value) ==
  /\ Room
  /\ state' = value
  /\ notifySubscribers(value, differingKeys(value, ObjectKeys(value), 1),
                       Mutation("setState", NoPath, value))
  /\ UNCHANGED <<subscribers, batching, onMountFn, onUnmountFn, inBatchFn,
                 mounted>>

setState(value) ==
  /\ Room
  /\ state' = value
  /\ notifySubscribers(value, ObjectKeys(value),
                       Mutation("setState", NoPath, value))
  /\ UNCHANGED <<subscribers, batching, onMountFn, onUnmountFn, inBatchFn,
                 mounted>>

\* mutant of setPath: inside a batch the write waits for the end of the
\* batch as the notification does
setPathDeferred(path, value) ==
  /\ Room
  /\ LET pathParts == split(path)
         newState == setDeepPathClone(
                       IF state = Undefined THEN EmptyObj ELSE state,
                       pathParts, value)
     IN /\ state' = IF batching THEN state ELSE newState
        /\ notifySubscribers(newState, <<path>>,
                             Mutation("setPath", path, value))
  /\ UNCHANGED <<subscribers, batching, onMountFn, onUnmountFn, inBatchFn,
                 mounted>>

setPath(path, value) ==
  /\ Room
  /\ LET pathParts == split(path)
         newState == setDeepPathClone(
                       IF state = Undefined THEN EmptyObj ELSE state,
                       pathParts, value)
     IN /\ state' = newState
        /\ notifySubscribers(newState, <<path>>,
                             Mutation("setPath", path, value))
  /\ UNCHANGED <<subscribers, batching, onMountFn, onUnmountFn, inBatchFn,
                 mounted>>

clearPath(path, removeEmptyObjects) ==
  /\ Room
  /\ IF state = Undefined
     THEN /\ last' = Last("clearPath", path, <<>>, <<>>, NoError, <<>>, <<>>,
                          FALSE)
          /\ UNCHANGED <<state, batchedUpdates, issued>>
     ELSE LET pathParts == split(path)
              newState ==
                deleteDeepPathClone(state, pathParts, removeEmptyObjects)
          IN /\ state' = newState
             /\ notifySubscribers(newState, <<path>>,
                                  Mutation("clearPath", path, Undefined))
  /\ UNCHANGED <<subscribers, batching, onMountFn, onUnmountFn, inBatchFn,
                 mounted>>

\* mutant of batch: the `if (batchedUpdates) throw` guard is missing
batchUnguarded ==
  /\ batching' = TRUE
  /\ batchedUpdates' = <<>>
  /\ issued' = <<>>
  /\ inBatchFn' = TRUE
  /\ last' = [op |-> "batch", path |-> <<>>, calls |-> <<>>, hooks |-> <<>>,
              error |-> "none", pending |-> <<>>, ops |-> <<>>,
              changed |-> FALSE, existed |-> FALSE]
  /\ UNCHANGED <<state, subscribers, onMountFn, onUnmountFn, mounted>>

\* batch(fn) up to the call of fn; when a batch is already open it throws
\* 'Cannot batch updates inside a batch' instead
batch ==
  IF batching
  THEN /\ last' = Last("batch", NoPath, <<>>, <<>>, BatchError, <<>>, <<>>,
                       FALSE)
       /\ UNCHANGED <<state, subscribers, batching, batchedUpdates, onMountFn,
                      onUnmountFn, inBatchFn, issued, mounted>>
  ELSE /\ batching' = TRUE
       /\ batchedUpdates' = <<>>
       /\ issued' = <<>>
       /\ inBatchFn' = TRUE
       /\ last' = Last("batch", NoPath, <<>>, <<>>, NoError, <<>>, <<>>, FALSE)
       /\ UNCHANGED <<state, subscribers, onMountFn, onUnmountFn, mounted>>

\* fn has returned: the rest of batch(fn)
batchReturn ==
  /\ inBatchFn
  /\ LET updates == uniqueUpdates(batchedUpdates)
     IN last' = Last("batchReturn", NoPath,
                     dispatchUpdates(subscribers, updates),
                     <<>>, NoError, batchedUpdates, issued, FALSE)
  /\ batching' = FALSE
  /\ batchedUpdates' = <<>>
  /\ issued' = <<>>
  /\ inBatchFn' = FALSE
  /\ UNCHANGED <<state, subscribers, onMountFn, onUnmountFn, mounted>>

\* fn throws (its own error, or the error of a batch call it made and did
\* not catch): the exception leaves batch(fn) at `fn();`
batchThrow ==
  /\ inBatchFn
  /\ inBatchFn' = FALSE
  /\ last' = Last("batchThrow", NoPath, <<>>, <<>>, FnError, <<>>, <<>>,
                  FALSE)
  /\ UNCHANGED <<state, subscribers, batching, batchedUpdates, onMountFn,
                 onUnmountFn, issued, mounted>>

\* The store with batches, over the smaller input sets
Next ==
  \/ \E fn \in Fns, path \in BatchSubPaths :
       addSubscriber(fn, path) /\ UNCHANGED <<refs, map, stack>>
  \/ \E fn \in Fns :
       removeSubscriber(fn) /\ UNCHANGED <<refs, map, stack>>
  \/ \E value \in StateVals :
       setState(value) /\ UNCHANGED <<refs, map, stack>>
  \/ \E path \in BatchPaths, value \in Vals :
       setPath(path, value) /\ UNCHANGED <<refs, map, stack>>
  \/ \E path \in BatchPaths, removeEmptyObjects \in BOOLEAN :
       clearPath(path, removeEmptyObjects) /\ UNCHANGED <<refs, map, stack>>
  \/ batch /\ UNCHANGED <<refs, map, stack>>
  \/ batchReturn /\ UNCHANGED <<refs, map, stack>>
  \/ batchThrow /\ UNCHANGED <<refs, map, stack>>

Spec == Init /\ [][Next]_vars

\* The store without batches, over the full input sets
NextNotify ==
  \/ \E fn \in Fns, path \in Paths \cup {NoPath} :
       addSubscriber(fn, path) /\ UNCHANGED <<refs, map, stack>>
  \/ \E fn \in Fns :
       removeSubscriber(fn) /\ UNCHANGED <<refs, map, stack>>
  \/ \E value \in StateVals \cup {DottedVal} :
       setState(value) /\ UNCHANGED <<refs, map, stack>>
  \/ \E path \in Paths, value \in Vals :
       setPath(path, value) /\ UNCHANGED <<refs, map, stack>>
  \/ \E path \in Paths, removeEmptyObjects \in BOOLEAN :
       clearPath(path, removeEmptyObjects) /\ UNCHANGED <<refs, map, stack>>

SpecNotify == Init /\ [][NextNotify]_vars

\* The store with its mount hooks, over the smallest input sets
NextMount ==
  \/ \E fn \in MountFns :
       onMount(fn) /\ UNCHANGED <<refs, map, stack>>
  \/ \E fn \in Fns, path \in MountSubPaths :
       addSubscriber(fn, path) /\ UNCHANGED <<refs, map, stack>>
  \/ \E fn \in Fns :
       removeSubscriber(fn) /\ UNCHANGED <<refs, map, stack>>
  \/ \E path \in MountPaths, value \in Vals :
       setPath(path, value) /\ UNCHANGED <<refs, map, stack>>
  \/ batch /\ UNCHANGED <<refs, map, stack>>
  \/ batchReturn /\ UNCHANGED <<refs, map, stack>>

SpecMount == Init /\ [][NextMount]_vars

\* the paths and values of the specification with references: paths of
\* one, two and three segments below two keys
HeapPaths == {P_a, P_a1, P_a1b, P_b, P_b1}
\* { a: { 1: { b: 1 } } }: a chain of objects with one key each
ChainValue == Obj(K_a :> Obj(K_1 :> Obj(K_b :> Num(1))))
\* { a: { 1: { b: 1 }, b: 2 }, b: { 1: 2 } }: objects beside the chain
BranchValue ==
  Obj((K_a :> Obj((K_1 :> Obj(K_b :> Num(1))) @@ (K_b :> Num(2))))
      @@ (K_b :> Obj(K_1 :> Num(2))))
HeapStateVals == {EmptyObj, ChainValue, BranchValue}

\* a call that creates objects finds room on the heap
HeapRoom == Len(heap) < MaxHeap

\* setState(value) with `value` an object literal of the caller
setStateHeap(value) ==
  /\ HeapRoom
  /\ setState(value)
  /\ LET newState == literal(heap, value)
     IN heap' = newState.h /\ root' = newState.v

\* setPath and clearPath with the objects that object.ts creates and
\* changes
setPathHeap(path, value) ==
  /\ HeapRoom
  /\ setPath(path, value)
  /\ LET newState == setDeepPathCloneRef(heap, root, split(path), value)
     IN heap' = newState.h /\ root' = newState.v

clearPathHeap(path, removeEmptyObjects) ==
  /\ HeapRoom
  /\ clearPath(path, removeEmptyObjects)
  /\ LET newState ==
           deleteDeepPathCloneRef(heap, root, split(path), removeEmptyObjects)
     IN heap' = newState.h /\ root' = newState.v

\* The store with the references of its state tree
NextHeap ==
  \/ \E value \in HeapStateVals : setStateHeap(value) /\ UNCHANGED <<map, stack>>
  \/ \E path \in HeapPaths, value \in Vals :
       setPathHeap(path, value) /\ UNCHANGED <<map, stack>>
  \/ \E path \in HeapPaths, removeEmptyObjects \in BOOLEAN :
       clearPathHeap(path, removeEmptyObjects) /\ UNCHANGED <<map, stack>>

SpecHeap == Init /\ [][NextHeap]_vars

\* A watcherStore without mount function and a useWatcherMap, constructed
\* with the same value and given the same calls
NextMap ==
  \/ \E fn \in Fns, path \in MountSubPaths :
       /\ addSubscriber(fn, path)
       /\ map' = mapAddSubscriber(map, fn, path)
       /\ UNCHANGED <<refs, stack>>
  \/ \E fn \in Fns :
       /\ removeSubscriber(fn)
       /\ map' = mapRemoveSubscriber(map, fn)
       /\ UNCHANGED <<refs, stack>>
  \/ \E value \in StateVals :
       /\ setState(value)
       /\ map' = mapSetState(map, value)
       /\ UNCHANGED <<refs, stack>>
  \/ \E path \in BatchPaths, value \in Vals :
       /\ setPath(path, value)
       /\ map' = mapSetPath(map, path, value)
       /\ UNCHANGED <<refs, stack>>
  \/ \E path \in BatchPaths, removeEmptyObjects \in BOOLEAN :
       /\ clearPath(path, removeEmptyObjects)
       /\ map' = mapClearPath(map, path, removeEmptyObjects)
       /\ UNCHANGED <<refs, stack>>
  \/ batch /\ map' = mapBatch(map) /\ UNCHANGED <<refs, stack>>
  \/ batchReturn /\ map' = mapBatchReturn(map) /\ UNCHANGED <<refs, stack>>
  \/ batchThrow /\ map' = mapBatchThrow(map) /\ UNCHANGED <<refs, stack>>

SpecMap == Init /\ [][NextMap]_vars

(***************************************************************************)
(* watcherStore.ts, one subscriber at a time: a notification round is a    *)
(* frame of `stack`, and a callback may call back into the store.          *)
(***************************************************************************)
\* what a callback does when it is invoked: "f1" and "f2" only take the
\* value, "r1" removes the subscriber "f1", "w1" writes the path "a" and
\* "w2" replaces the state
Act(fn) ==
  CASE fn = "r1" -> [do |-> "removeSubscriber", fn |-> "f1"]
    [] fn = "w1" -> [do |-> "setPath", path |-> P_a, value |-> Num(1)]
    [] fn = "w2" -> [do |-> "setState",
                     value |-> Obj((K_a :> Num(1)) @@ (K_b :> Num(2)))]
    [] OTHER -> [do |-> "nothing"]

\* the callbacks of the specification without, and of the one with,
\* callbacks that write
RoundFns == {"f1", "f2", "r1"}
ReenterFns == {"f1", "w1", "w2"}
RoundSubPaths == {NoPath, P_a}
RoundPaths == {P_a, P_b}

\* notifySubscribers(value, paths) at the head of its loop: the iterator of
\* `for (const subscriber of subscribers)` holds the array that
\* `subscribers` names at that moment, and i is the next index it yields
Frame(value, paths) ==
  [value |-> value, paths |-> paths, list |-> subscribers, i |-> 1]

\* the rounds in progress after notifySubscribers(value, paths) was entered
\* with the rounds `rounds` on the stack
enter(rounds, value, paths) == Append(rounds, Frame(value, paths))

\* the innermost round
Top == stack[Len(stack)]

\* setState(value), called while no round is in progress, up to the loop
setStateRound(value) ==
  /\ stack = <<>>
  /\ state' = value
  /\ stack' = enter(stack, value, ObjectKeys(value))
  /\ last' = Last("setState", NoPath, <<>>, <<>>, NoError, <<>>, <<>>,
                  value # state)
  /\ UNCHANGED <<subscribers, batching, batchedUpdates, onMountFn,
                 onUnmountFn, inBatchFn, issued, mounted>>

\* mutant of setPathRound: `state = newState` comes after the notification
setPathRoundLate(path, value) ==
  /\ stack = <<>>
  /\ LET pathParts == split(path)
         newState == setDeepPathClone(
                       IF state = Undefined THEN EmptyObj ELSE state,
                       pathParts, value)
     IN /\ state' = state
        /\ stack' = enter(stack, newState, <<path>>)
        /\ last' = Last("setPath", path, <<>>, <<>>, NoError, <<>>, <<>>,
                        newState # state)
  /\ UNCHANGED <<subscribers, batching, batchedUpdates, onMountFn,
                 onUnmountFn, inBatchFn, issued, mounted>>

\* setPath(path, value), called while no round is in progress, up to the
\* loop
setPathRound(path, value) ==
  /\ stack = <<>>
  /\ LET pathParts == split(path)
         newState == setDeepPathClone(
                       IF state = Undefined THEN EmptyObj ELSE state,
                       pathParts, value)
     IN /\ state' = newState
        /\ stack' = enter(stack, newState, <<path>>)
        /\ last' = Last("setPath", path, <<>>, <<>>, NoError, <<>>, <<>>,
                        newState # state)
  /\ UNCHANGED <<subscribers, batching, batchedUpdates, onMountFn,
                 onUnmountFn, inBatchFn, issued, mounted>>

\* clearPath(path, removeEmptyObjects), called while no round is in
\* progress, up to the loop
clearPathRound(path, removeEmptyObjects) ==
  /\ stack = <<>>
  /\ IF state = Undefined
     THEN /\ last' = Last("clearPath", path, <<>>, <<>>, NoError, <<>>, <<>>,
                          FALSE)
          /\ UNCHANGED <<state, stack>>
     ELSE LET pathParts == split(path)
              newState ==
                deleteDeepPathClone(state, pathParts, removeEmptyObjects)
          IN /\ state' = newState
             /\ stack' = enter(stack, newState, <<path>>)
             /\ last' = Last("clearPath", path, <<>>, <<>>, NoError, <<>>,
                             <<>>, newState # state)
  /\ UNCHANGED <<subscribers, batching, batchedUpdates, onMountFn,
                 onUnmountFn, inBatchFn, issued, mounted>>

\* mutant of invoke: a callback's call of setPath or setState is ignored
\* while a round is in progress
invokeGuarded ==
  /\ stack # <<>>
  /\ Top.i <= Len(Top.list)
  /\ LET subscriber == Top.list[Top.i]
         made == notifyOne(subscriber, Top.value, Top.paths)
         act == IF made = <<>> THEN [do |-> "nothing"]
                ELSE Act(subscriber.fn)
         advanced == [stack EXCEPT ![Len(stack)].i = Top.i + 1]
     IN /\ last' = [last EXCEPT !.calls = @ \o made]
        /\ IF act.do = "removeSubscriber"
           THEN /\ subscribers' =
                     SelectSeq(subscribers, LAMBDA sub : sub.fn # act.fn)
                /\ stack' = advanced
                /\ state' = state
           ELSE /\ stack' = advanced
                /\ UNCHANGED <<state, subscribers>>
  /\ UNCHANGED <<batching, batchedUpdates, onMountFn, onUnmountFn, inBatchFn,
                 issued, mounted>>

\* one turn of the loop of the innermost round: the next subscriber of the
\* iterated array is matched against the paths and, on a match, its callback
\* is invoked; what the callback calls runs before the loop goes on
invoke ==
  /\ stack # <<>>
  /\ Top.i <= Len(Top.list)
  /\ LET subscriber == Top.list[Top.i]
         made == notifyOne(subscriber, Top.value, Top.paths)
         act == IF made = <<>> THEN [do |-> "nothing"]
                ELSE Act(subscriber.fn)
         advanced == [stack EXCEPT ![Len(stack)].i = Top.i + 1]
     IN /\ last' = [last EXCEPT !.calls = @ \o made]
        /\ CASE act.do = "removeSubscriber" ->
                  \* subscribers = subscribers.filter(sub => sub.fn !== fn)
                  /\ subscribers' =
                       SelectSeq(subscribers, LAMBDA sub : sub.fn # act.fn)
                  /\ stack' = advanced
                  /\ state' = state
             [] act.do = "setPath" ->
                  /\ Len(stack) < MaxDepth
                  /\ LET newState ==
                           setDeepPathClone(
                             IF state = Undefined THEN EmptyObj ELSE state,
                             split(act.path), act.value)
                     IN /\ state' = newState
                        /\ stack' = enter(advanced, newState, <<act.path>>)
                  /\ subscribers' = subscribers
             [] act.do = "setState" ->
                  /\ Len(stack) < MaxDepth
                  /\ state' = act.value
                  /\ stack' = enter(advanced, act.value,
                                    ObjectKeys(act.value))
                  /\ subscribers' = subscribers
             [] OTHER ->
                  /\ stack' = advanced
                  /\ UNCHANGED <<state, subscribers>>
  /\ UNCHANGED <<batching, batchedUpdates, onMountFn, onUnmountFn, inBatchFn,
                 issued, mounted>>

\* the loop of the innermost round is exhausted: notifySubscribers returns
\* to the mutation that called it, and that to its caller
roundReturn ==
  /\ stack # <<>>
  /\ Top.i > Len(Top.list)
  /\ stack' = SubSeq(stack, 1, Len(stack) - 1)
  /\ UNCHANGED <<state, subscribers, batching, batchedUpdates, onMountFn,
                 onUnmountFn, inBatchFn, issued, mounted, last>>

\* The store outside a batch, with callbacks that read and unsubscribe
NextRound ==
  \/ \E fn \in RoundFns, path \in RoundSubPaths :
       /\ stack = <<>>
       /\ addSubscriber(fn, path)
       /\ UNCHANGED <<refs, map, stack>>
  \/ \E fn \in RoundFns :
       /\ stack = <<>>
       /\ removeSubscriber(fn)
       /\ UNCHANGED <<refs, map, stack>>
  \/ \E value \in StateVals :
       setStateRound(value) /\ UNCHANGED <<refs, map>>
  \/ \E path \in RoundPaths, value \in Vals :
       setPathRound(path, value) /\ UNCHANGED <<refs, map>>
  \/ \E path \in RoundPaths, removeEmptyObjects \in BOOLEAN :
       clearPathRound(path, removeEmptyObjects) /\ UNCHANGED <<refs, map>>
  \/ invoke /\ UNCHANGED <<refs, map>>
  \/ roundReturn /\ UNCHANGED <<refs, map>>

SpecRound == Init /\ [][NextRound]_vars

\* The store outside a batch, with callbacks that write
NextReenter ==
  \/ \E fn \in ReenterFns, path \in BatchSubPaths :
       /\ stack = <<>>
       /\ addSubscriber(fn, path)
       /\ UNCHANGED <<refs, map, stack>>
  \/ \E fn \in ReenterFns :
       /\ stack = <<>>
       /\ removeSubscriber(fn)
       /\ UNCHANGED <<refs, map, stack>>
  \/ \E value \in StateVals :
       setStateRound(value) /\ UNCHANGED <<refs, map>>
  \/ \E path \in BatchPaths, value \in Vals :
       setPathRound(path, value) /\ UNCHANGED <<refs, map>>
  \/ invoke /\ UNCHANGED <<refs, map>>
  \/ roundReturn /\ UNCHANGED <<refs, map>>

SpecReenter == Init /\ [][NextReenter]_vars

(***************************************************************************)
(* Properties                                                              *)
(***************************************************************************)
MutationOps == {"setState", "setPath", "clearPath"}

\* the invocations of one callback among `calls`
CallsOf(calls, fn) == SelectSeq(calls, LAMBDA c : c.fn = fn)

\* the callbacks of the registered subscribers
Registered == {subscribers[i].fn : i \in 1..Len(subscribers)}

\* C1: while a batch call is executing its fn, no call made inside fn invokes
\* a subscriber callback; the deferred notifications are all made by the
\* time the batch call returns, which leaves nothing pending.
C1_NoCallbackInsideBatchFn ==
  /\ inBatchFn => last.calls = <<>>
  /\ last.op = "batchReturn" => ~batching /\ batchedUpdates = <<>>

\* a setPath inside fn wrote a path that a registered subscriber would be
\* told of outside a batch
C1_Witness ==
  /\ inBatchFn
  /\ last.op = "setPath"
  /\ notifyRound(subscribers, state, <<last.path>>) # <<>>

\* the mutation calls `ops` are setPath calls on one and the same path
SamePathWrites(ops) ==
  /\ Len(ops) >= 1
  /\ \A i \in 1..Len(ops) : ops[i].op = "setPath" /\ ops[i].path = ops[1].path

\* C2: when the fn of a batch wrote one path n >= 1 times with setPath and
\* nothing else, a subscriber registered on exactly that path is invoked
\* exactly once when the batch ends, with the value of the last write.
C2_SamePathOnceWithLastValue ==
  (last.op = "batchReturn" /\ SamePathWrites(last.ops)) =>
    \A i \in 1..Len(subscribers) :
      subscribers[i].path = last.ops[1].path =>
        CallsOf(last.calls, subscribers[i].fn)
          = <<Call(subscribers[i].fn, last.ops[Len(last.ops)].value)>>

\* a batch that wrote one path at least twice, first and last value
\* different, with a subscriber on that path
C2_Witness ==
  /\ last.op = "batchReturn"
  /\ SamePathWrites(last.ops)
  /\ Len(last.ops) >= 2
  /\ last.ops[1].value # last.ops[Len(last.ops)].value
  /\ \E i \in 1..Len(subscribers) : subscribers[i].path = last.ops[1].path

\* C3: a batch invokes each registered subscriber at most once.
C3_AtMostOncePerBatch ==
  last.op = "batchReturn" =>
    \A fn \in Registered : Len(CallsOf(last.calls, fn)) <= 1

\* segment-wise relations of two dotted paths
IsPrefix(a, b) == Len(a) <= Len(b) /\ SubSeq(b, 1, Len(a)) = a
Related(p, w) ==
  IsPrefix(split(p), split(w)) \/ IsPrefix(split(w), split(p))

\* the paths the last mutation reported as written
Written ==
  IF last.op = "setState" THEN ObjectKeys(state) ELSE <<last.path>>

\* the last call was a mutation that notified at once
NotifiedNow == last.op \in MutationOps /\ ~batching

\* C4: outside a batch one setState, setPath or clearPath invokes each
\* callback at most once, also when several written paths are related to the
\* subscriber's path.
C4_AtMostOncePerMutation ==
  NotifiedNow => \A fn \in Fns : Len(CallsOf(last.calls, fn)) <= 1

\* a setState whose value has two top-level keys that are both related to
\* the path of a subscriber, which was invoked
C4_Witness ==
  /\ NotifiedNow
  /\ last.op = "setState"
  /\ \E i \in 1..Len(subscribers) :
       /\ subscribers[i].path # NoPath
       /\ \E j, k \in 1..Len(Written) :
            /\ j # k
            /\ Related(subscribers[i].path, Written[j])
            /\ Related(subscribers[i].path, Written[k])
       /\ Len(CallsOf(last.calls, subscribers[i].fn)) = 1

\* C5: outside a batch setPath(w, v) invokes exactly once every path-scoped
\* subscriber whose path is w, an ancestor of w or a descendant of w
\* (segment-wise), with the value at the subscriber's path in the new state.
C5_SetPathNotifiesRelated ==
  (NotifiedNow /\ last.op = "setPath") =>
    \A i \in 1..Len(subscribers) :
      (subscribers[i].path # NoPath
       /\ Related(subscribers[i].path, last.path)) =>
        CallsOf(last.calls, subscribers[i].fn)
          = <<Call(subscribers[i].fn,
                   getDeepPath(state, split(subscribers[i].path)))>>

\* a setPath told a subscriber on the written path and one on a child path
\* that no longer exists, which received undefined
C5_Witness ==
  /\ NotifiedNow
  /\ last.op = "setPath"
  /\ \E i, j \in 1..Len(subscribers) :
       /\ subscribers[i].path = last.path
       /\ subscribers[j].path # last.path
       /\ IsPrefix(split(last.path), split(subscribers[j].path))
       /\ CallsOf(last.calls, subscribers[i].fn)
            = <<Call(subscribers[i].fn, Prop(state, K_a))>>
       /\ CallsOf(last.calls, subscribers[j].fn)
            = <<Call(subscribers[j].fn, Undefined)>>

\* C6: a mutation never invokes a path-scoped subscriber whose path is
\* unrelated (segment-wise) to every written path.
C6_UnrelatedNotNotified ==
  NotifiedNow =>
    \A i \in 1..Len(subscribers) :
      (subscribers[i].path # NoPath
       /\ \A j \in 1..Len(Written) :
            ~Related(subscribers[i].path, Written[j])) =>
        CallsOf(last.calls, subscribers[i].fn) = <<>>

\* C7: a batch call made while a batch is open throws 'Cannot batch updates
\* inside a batch', runs no fn, and leaves the state, the subscriber list and
\* the pending entries as they were.
C7_NestedBatchRejected ==
  [][(batching /\ last'.op = "batch") =>
       /\ last'.error = BatchError
       /\ state' = state
       /\ subscribers' = subscribers
       /\ batching'
       /\ batchedUpdates' = batchedUpdates
       /\ issued' = issued
       /\ inBatchFn' = inBatchFn]_vars

\* a batch call was rejected inside the fn of a batch that has subscribers
\* and pending entries
C7_Witness ==
  /\ last.op = "batch"
  /\ last.error = BatchError
  /\ inBatchFn
  /\ Len(batchedUpdates) >= 1
  /\ Len(subscribers) >= 1

\* C8: whenever no batch call is executing, the store is not in batching
\* mode.
C8_IdleIsNotBatching == ~inBatchFn => ~batching

\* reverse of a sequence
RECURSIVE Reverse(_)
Reverse(seq) ==
  IF Len(seq) = 0 THEN <<>> ELSE Append(Reverse(Tail(seq)), Head(seq))

\* C9: when a batch ends, the surviving entries are dispatched in the order
\* in which their mutations were issued, earliest first.
C9_DispatchInIssueOrder ==
  last.op = "batchReturn" =>
    last.calls
      = dispatchUpdates(subscribers, Reverse(uniqueUpdates(last.pending)))

\* the entries that no later entry repeats with exactly the same list of
\* paths, from the i-th entry back to the first
RECURSIVE lastOfEachList(_, _)
lastOfEachList(entries, i) ==
  IF i < 1 THEN <<>>
  ELSE (IF \E j \in (i + 1)..Len(entries) :
             entries[j].paths = entries[i].paths
        THEN <<>> ELSE <<entries[i]>>)
       \o lastOfEachList(entries, i - 1)

\* C10: when a batch ends, a pending entry is dropped if and only if a later
\* entry has exactly the same list of written paths.
C10_DroppedIffLaterSameList ==
  last.op = "batchReturn" =>
    uniqueUpdates(last.pending)
      = lastOfEachList(last.pending, Len(last.pending))

\* C11: outside a batch, every setState, setPath and clearPath invokes each
\* subscriber registered without a path exactly once, with the new complete
\* state as argument.
C11_WholeStateOnceWithNewState ==
  NotifiedNow =>
    \A i \in 1..Len(subscribers) :
      subscribers[i].path = NoPath =>
        CallsOf(last.calls, subscribers[i].fn)
          = <<Call(subscribers[i].fn, state)>>

\* a clearPath that changed nothing, and a setState that installed a value
\* without keys, each invoked a subscriber without a path
C11_Witness ==
  /\ NotifiedNow
  /\ \/ last.op = "clearPath" /\ ~last.changed
     \/ last.op = "setState" /\ state = EmptyObj
  /\ \E i \in 1..Len(subscribers) :
       /\ subscribers[i].path = NoPath
       /\ CallsOf(last.calls, subscribers[i].fn)
            = <<Call(subscribers[i].fn, state)>>

\* the first segment of a path: the top-level key it lies at or under
TopKey(path) == Head(split(path))

\* C12: outside a batch, setState(value) invokes exactly once each
\* path-scoped subscriber whose path lies at or under a top-level key of
\* value, with the value at the subscriber's path in the new state, also
\* when the call left the state as it was.
C12_SetStateReportsTopLevelKeys ==
  (NotifiedNow /\ last.op = "setState") =>
    \A i \in 1..Len(subscribers) :
      (subscribers[i].path # NoPath
       /\ HasKey(state, TopKey(subscribers[i].path))) =>
        CallsOf(last.calls, subscribers[i].fn)
          = <<Call(subscribers[i].fn,
                   getDeepPath(state, split(subscribers[i].path)))>>

\* a setState that installed the value the state already had invoked a
\* subscriber watching a path below one of its keys
C12_Witness ==
  /\ NotifiedNow
  /\ last.op = "setState"
  /\ ~last.changed
  /\ \E i \in 1..Len(subscribers) :
       /\ subscribers[i].path # NoPath
       /\ HasKey(state, TopKey(subscribers[i].path))
       /\ Len(split(subscribers[i].path)) > 1
       /\ CallsOf(last.calls, subscribers[i].fn) # <<>>

\* C13: outside a batch, setState invokes every registered path-scoped
\* subscriber, whatever its path and whatever the new state contains.
C13_SetStateTriggersAllWatchedPaths ==
  (NotifiedNow /\ last.op = "setState") =>
    \A i \in 1..Len(subscribers) :
      subscribers[i].path # NoPath =>
        CallsOf(last.calls, subscribers[i].fn) # <<>>

\* C14: once removeSubscriber(fn) has returned, fn is not registered; it
\* becomes registered again only by an addSubscriber(fn, ...); and while it
\* is not registered no setState, setPath, clearPath or batch invokes it.
C14_RemovedNotInvoked ==
  /\ [][\A fn \in Fns : removeSubscriber(fn) => fn \notin Registered']_vars
  /\ [][\A fn \in Fns :
          (fn \in Registered' /\ fn \notin Registered) =>
            \E path \in MountSubPaths : addSubscriber(fn, path)]_vars
  /\ [](\A fn \in Fns :
          fn \notin Registered => CallsOf(last.calls, fn) = <<>>)

\* a setPath invoked nobody after every callback that had been registered
\* (the unmount function tells that one was) was removed
C14_Witness ==
  /\ NotifiedNow
  /\ last.op = "setPath"
  /\ onUnmountFn # NULL
  /\ subscribers = <<>>
  /\ last.calls = <<>>

\* C15: the subscriber list holds at most one entry per callback, and an
\* addSubscriber with a registered callback leaves the list as it was, also
\* when it names another path.
C15_OneEntryPerCallback ==
  /\ [](\A i, j \in 1..Len(subscribers) :
          subscribers[i].fn = subscribers[j].fn => i = j)
  /\ [][\A fn \in Fns, path \in MountSubPaths :
          (addSubscriber(fn, path) /\ fn \in Registered) =>
            subscribers' = subscribers]_vars

\* an addSubscriber left the list as it was (its callback was registered)
\* and no entry has the path it named
C15_Witness ==
  /\ last.op = "addSubscriber"
  /\ ~last.changed
  /\ subscribers # <<>>
  /\ \A i \in 1..Len(subscribers) : subscribers[i].path # last.path

\* the subscriber count goes from 0 to 1, from 1 to 0
FirstAdded == Len(subscribers) = 0 /\ Len(subscribers') = 1
LastRemoved == Len(subscribers) = 1 /\ Len(subscribers') = 0

\* the mount functions, the unmount functions among the hooks a call ran
MountCalls(hooks) == SelectSeq(hooks, LAMBDA h : h \in MountFns)
UnmountCalls(hooks) == SelectSeq(hooks, LAMBDA h : h \notin MountFns)

\* C16: the function registered with onMount is invoked exactly once by each
\* call that takes the subscriber count from 0 to 1, and by no other call:
\* not by an addSubscriber on a non-empty list, not by onMount itself.
C16_MountOnFirstSubscriber ==
  [][MountCalls(last'.hooks)
       = IF FirstAdded /\ onMountFn # NULL THEN <<onMountFn>> ELSE <<>>]_vars

\* the first subscriber, a path-scoped one, was registered and the mount
\* function ran once
C16_Witness ==
  /\ last.op = "addSubscriber"
  /\ Len(subscribers) = 1
  /\ subscribers[1].path # NoPath
  /\ onMountFn # NULL
  /\ last.hooks = <<onMountFn>>

\* C17: the remembered unmount callback is invoked exactly once by each call
\* that takes the subscriber count from 1 to 0, and by no other call: not by
\* a removal that leaves subscribers, not by a removeSubscriber that leaves
\* the list as it was.
C17_UnmountOnLastSubscriber ==
  [][UnmountCalls(last'.hooks)
       = IF LastRemoved /\ onUnmountFn # NULL THEN <<onUnmountFn>>
         ELSE <<>>]_vars

\* C18: an unmount callback that has been invoked is not invoked again
\* unless a later mount returns a callback: when the mount of a cycle
\* returned no function, the removal that ends the cycle invokes nothing.
C18_UnmountClearedAfterCall ==
  [][(LastRemoved /\ mounted = NULL) => last'.hooks = <<>>]_vars

\* C19: removeSubscriber with a callback that is not registered changes
\* neither the subscriber list nor the state and invokes no subscriber and
\* no hook, also when the list is empty.
C19_RemoveUnregisteredIsNoOp ==
  [][\A fn \in Fns :
       (removeSubscriber(fn) /\ fn \notin Registered) =>
         /\ subscribers' = subscribers
         /\ state' = state
         /\ last'.calls = <<>>
         /\ last'.hooks = <<>>]_vars

\* C20: the removal that ends a cycle invokes the function that the mount
\* function returned at the start of that same cycle, and no other.
C20_UnmountOfSameCycle ==
  [][LastRemoved =>
       UnmountCalls(last'.hooks)
         = IF mounted # NULL THEN <<mounted>> ELSE <<>>]_vars

\* C21: only one mount function is kept: onMount(g) replaces the one kept
\* before, nothing else changes it, and the only mount function a call ever
\* invokes is the one kept at that moment.
C21_OneMountFunctionKept ==
  /\ [][\A g \in MountFns : onMount(g) => onMountFn' = g]_vars
  /\ [][onMountFn' # onMountFn => last'.op = "onMount"]_vars
  /\ [][\A i \in 1..Len(last'.hooks) :
          last'.hooks[i] \in MountFns => last'.hooks[i] = onMountFn]_vars

\* the first subscriber was registered and only the kept mount function
\* ran, while the remembered unmount function is one that an earlier mount
\* function, since replaced, returned
C21_Witness ==
  /\ last.op = "addSubscriber"
  /\ onMountFn # NULL
  /\ last.hooks = <<onMountFn>>
  /\ onUnmountFn # NULL
  /\ onUnmountFn # MountReturn(onMountFn)

\* the state tree the store holds is the content of the reference it holds
StateIsContentOfRoot == state = content(heap, root)

\* a reference to an object that the call of this step created
Fresh(v) == typeofRef(v) /\ v.a > Len(heap)

\* getPath(path) before and after the step
getPathRef(path) == getDeepPathRef(heap, root, split(path))
getPathRefAfter(path) == getDeepPathRef(heap', root', split(path))

\* C22: setPath(P, v) makes the state a new root object and puts a new
\* object at every strict ancestor of P, and getPath(q) returns the same
\* reference (or primitive) as before for every path q unrelated to P.
C22_StructuralSharing ==
  [][last'.op = "setPath" =>
       LET P == last'.path
       IN /\ Fresh(root')
          /\ \A k \in 1..(Len(split(P)) - 1) :
               Fresh(getDeepPathRef(heap', root', SubSeq(split(P), 1, k)))
          /\ \A q \in HeapPaths :
               ~Related(q, P) => getPathRefAfter(q) = getPathRef(q)]_vars

\* a setPath of a path of three segments left, beside the new objects on
\* its way, an object under the key b that is older than the new root
C22_Witness ==
  /\ last.op = "setPath"
  /\ last.path = P_a1b
  /\ typeofRef(PropRef(heap, root, K_b))
  /\ PropRef(heap, root, K_b).a < root.a
  /\ PropRef(heap, root, K_a).a > root.a

\* C23: no call changes an object that exists: every object of the heap,
\* hence every tree obtained from getState() or passed to setState, has
\* after a setPath or clearPath the content it had before.
C23_NoTreeMutated ==
  [][/\ Len(heap') >= Len(heap)
     /\ \A a \in 1..Len(heap) : heap'[a] = heap[a]]_vars

\* the root of the state before the last write is still on the heap, and a
\* setPath or clearPath has given the state another content
C23_Witness ==
  /\ last.op \in {"setPath", "clearPath"}
  /\ last.changed
  /\ root.a > 1
  /\ \E a \in 1..(root.a - 1) : content(heap, Ref(a)) # state

\* the path exists below obj: every segment is a key of the object reached
\* so far
RECURSIVE existsRef(_, _, _)
existsRef(h, obj, paths) ==
  /\ HasKeyRef(h, obj, Head(paths))
  /\ \/ Len(paths) = 1
     \/ existsRef(h, PropRef(h, obj, Head(paths)), Tail(paths))

\* C26: clearPath of a path that does not exist (a key is missing at some
\* level, or the path goes on below a primitive) leaves the state the same
\* reference and creates no object at any level.
C26_DeleteMissingKeepsReference ==
  [][(last'.op = "clearPath" /\ ~existsRef(heap, root, split(last'.path)))
       => root' = root /\ heap' = heap]_vars

\* a clearPath of a path of three segments went down below the key a and
\* left the content of the state as it was; the root is older than the
\* object under a, as in a literal passed to setState
C26_Witness ==
  /\ last.op = "clearPath"
  /\ last.path = P_a1b
  /\ ~last.changed
  /\ typeofRef(PropRef(heap, root, K_a))
  /\ PropRef(heap, root, K_a).a > root.a

\* the strict ancestors of a path, as lists of segments
Ancestors(path) ==
  {SubSeq(split(path), 1, k) : k \in 1..(Len(split(path)) - 1)}

\* C24: after setPath(p, v) getPath(p) is v, with an object at every strict
\* ancestor of p, whatever was there before; outside a batch a subscriber
\* registered on p is invoked exactly once, with v.
C24_SetPathThroughAbsentStructure ==
  [][last'.op = "setPath" =>
       \A value \in Vals :
         setPath(last'.path, value) =>
           /\ getDeepPath(state', split(last'.path)) = value
           /\ \A anc \in Ancestors(last'.path) :
                typeofObject(getDeepPath(state', anc))
           /\ \A i \in 1..Len(subscribers) :
                subscribers[i].path = last'.path =>
                  CallsOf(last'.calls, subscribers[i].fn)
                    = <<Call(subscribers[i].fn, value)>>]_vars

\* a setPath wrote a path of two segments that was not there, and a
\* subscriber registered on that path was invoked once
C24_Witness ==
  /\ NotifiedNow
  /\ last.op = "setPath"
  /\ ~last.existed
  /\ Len(split(last.path)) = 2
  /\ \E i \in 1..Len(subscribers) :
       /\ subscribers[i].path = last.path
       /\ Len(CallsOf(last.calls, subscribers[i].fn)) = 1

\* paths with the same parent and another last segment
Sibling(q, p) ==
  /\ q # NoPath
  /\ Len(split(q)) = Len(split(p))
  /\ SubSeq(split(q), 1, Len(split(q)) - 1)
       = SubSeq(split(p), 1, Len(split(p)) - 1)
  /\ split(q) # split(p)

\* C25: clearPath(p) of a path that is there makes getPath(p) undefined and
\* leaves the value at every sibling path as it was; outside a batch it
\* invokes once each subscriber on p or on an ancestor of p, and invokes no
\* subscriber on a sibling path.
C25_ClearPathOfExistingPath ==
  [][(last'.op = "clearPath" /\ last'.existed) =>
       LET p == last'.path
       IN /\ getDeepPath(state', split(p)) = Undefined
          /\ \A q \in Paths :
               Sibling(q, p) =>
                 getDeepPath(state', split(q)) = getDeepPath(state, split(q))
          /\ \A i \in 1..Len(subscribers) :
               /\ (subscribers[i].path # NoPath
                   /\ IsPrefix(split(subscribers[i].path), split(p))) =>
                    Len(CallsOf(last'.calls, subscribers[i].fn)) = 1
               /\ Sibling(subscribers[i].path, p) =>
                    CallsOf(last'.calls, subscribers[i].fn) = <<>>]_vars

\* C27: a clearPath of a path that is not there invokes no subscriber, with
\* or without a path.
C27_ClearMissingNotifiesNobody ==
  (NotifiedNow /\ last.op = "clearPath" /\ ~last.existed) =>
    last.calls = <<>>

\* the objects from `anc` down to the parent of the path have one key each:
\* deleting the path leaves `anc` empty
LeftEmpty(obj, paths, k) ==
  \A n \in k..(Len(paths) - 1) :
    Cardinality(DOMAIN getDeepPath(obj, SubSeq(paths, 1, n)).kv) = 1

\* C28: deleting a path that is there removes, with removeEmptyObjects,
\* exactly the ancestors that the deletion leaves empty, one above the
\* other up to the first that keeps a key (the root stays); without the
\* flag every ancestor stays; and the values at unrelated paths stay.
C28_RemoveEmptyObjectsCascade ==
  [][(last'.op = "clearPath" /\ last'.existed) =>
       \A removeEmptyObjects \in BOOLEAN :
         clearPathHeap(last'.path, removeEmptyObjects) =>
           LET paths == split(last'.path)
           IN /\ ~hasPath(state', paths)
              /\ typeofObject(state')
              /\ \A k \in 1..(Len(paths) - 1) :
                   hasPath(state', SubSeq(paths, 1, k))
                     <=> ~(removeEmptyObjects /\ LeftEmpty(state, paths, k))
              /\ \A k \in 1..(Len(paths) - 1) :
                   hasPath(state', SubSeq(paths, 1, k)) =>
                     typeofObject(getDeepPath(state', SubSeq(paths, 1, k)))
              /\ \A q \in HeapPaths :
                   ~Related(q, last'.path) =>
                     getDeepPath(state', split(q))
                       = getDeepPath(state, split(q))]_vars

\* a clearPath of a path of three segments removed the two objects above
\* it, which it left empty
C28_Witness ==
  /\ last.op = "clearPath"
  /\ last.path = P_a1b
  /\ last.existed
  /\ ~HasKey(state, K_a)

\* C29: outside a batch the notifications of a mutation are made before
\* the call returns, in the order of the subscriber list and from the state
\* that this call has assigned; nothing is left to be delivered later, so
\* they precede every callback of the next call.
C29_SynchronousInProgramOrder ==
  NotifiedNow =>
    /\ last.calls = notifyRound(subscribers, state, Written)
    /\ batchedUpdates = <<>>
    /\ issued = <<>>

\* a mutation outside a batch invoked two subscribers before it returned
C29_Witness ==
  /\ NotifiedNow
  /\ Len(subscribers) = 2
  /\ Len(last.calls) = 2
  /\ last.calls[1].fn = subscribers[1].fn
  /\ last.calls[2].fn = subscribers[2].fn

\* C30: a watcherStore without mount function and a useWatcherMap that are
\* given the same calls hold the same state, subscribers and pending
\* entries after each call, and each call made the same invocations with
\* the same arguments and threw the same error in both.
C30_StoreEquivalentToHook ==
  /\ map.state = state
  /\ map.subscribers = subscribers
  /\ map.batching = batching
  /\ map.batchedUpdates = batchedUpdates
  /\ map.calls = last.calls
  /\ map.error = last.error

\* a batch ended in both with the same two or more invocations
C30_Witness ==
  /\ last.op = "batchReturn"
  /\ Len(last.calls) >= 2
  /\ map.calls = last.calls
  /\ map.state = state

\* the paths a mutation call reports as written
WrittenBy(m) ==
  IF m.op = "setState" THEN ObjectKeys(m.value) ELSE <<m.path>>

\* C31: when a batch ends, for every path written inside it by setPath,
\* clearPath or as a top-level key of setState, every registered path-scoped
\* subscriber whose path is related (segment-wise) to the written path is
\* invoked at least once.
C31_NoNotificationLostInBatch ==
  last.op = "batchReturn" =>
    \A k \in 1..Len(last.ops) :
      \A j \in 1..Len(WrittenBy(last.ops[k])) :
        \A i \in 1..Len(subscribers) :
          (subscribers[i].path # NoPath
           /\ Related(subscribers[i].path, WrittenBy(last.ops[k])[j])) =>
            CallsOf(last.calls, subscribers[i].fn) # <<>>

\* what getState() or getPath(path) returns to a subscriber of `path`
Current(path) ==
  IF path = NoPath THEN state ELSE getDeepPath(state, split(path))

\* C32: after a batch has returned, the last value each registered
\* subscriber received in the notifications of that batch is the current
\* one: getState() for a subscriber of the whole state, getPath of its path
\* for a path-scoped one.
C32_LastValueOfBatchIsCurrent ==
  last.op = "batchReturn" =>
    \A i \in 1..Len(subscribers) :
      LET received == CallsOf(last.calls, subscribers[i].fn)
      IN received # <<>> =>
           received[Len(received)].arg = Current(subscribers[i].path)

\* C33: outside a batch, at the moment a round invokes a subscriber the
\* state is already the snapshot the mutation produced, and the argument is
\* what getState() returns for a subscriber of the whole state and what
\* getPath of its path returns for a path-scoped one.
C33_StateReplacedBeforeCallbacks ==
  [][(stack # <<>> /\ Len(last'.calls) > Len(last.calls)) =>
       /\ state = Top.value
       /\ last'.calls[Len(last'.calls)].arg = Current(Top.list[Top.i].path)
    ]_vars

\* a setPath that replaced the state has invoked a subscriber of the whole
\* state and a subscriber of the path "a", each with the new value
C33_Witness ==
  /\ stack # <<>>
  /\ last.op = "setPath"
  /\ last.changed
  /\ \E i, j \in 1..Len(last.calls) :
       /\ last.calls[i].arg = state
       /\ last.calls[j].arg = Prop(state, K_a)
       /\ last.calls[j].arg # Undefined

\* the states the mutation call `m` may leave when it is made in state s
\* (a clearPath with either value of removeEmptyObjects)
AfterMutation(m, s) ==
  CASE m.op = "setState" -> {m.value}
    [] m.op = "setPath" ->
         {setDeepPathClone(IF s = Undefined THEN EmptyObj ELSE s,
                           split(m.path), m.value)}
    [] m.op = "clearPath" ->
         {deleteDeepPathClone(s, split(m.path), removeEmptyObjects) :
            removeEmptyObjects \in BOOLEAN}

\* C34: a batch defers the notifications, not the writes.  Inside the fn
\* of a batch, after a setState getState() returns the value set, after a
\* setPath getPath of the path returns the value written and after a
\* clearPath it returns undefined; when the batch has returned the state is
\* the one its last mutation left, each mutation having been applied to the
\* state the one before it left.
C34_BatchDefersOnlyNotification ==
  /\ (inBatchFn /\ last.op \in MutationOps) =>
       LET m == issued[Len(issued)]
       IN /\ m.op = last.op
          /\ m.op = "setState" => state = m.value
          /\ m.op = "setPath" => Current(m.path) = m.value
          /\ m.op = "clearPath" => Current(m.path) = Undefined
  /\ (last.op = "batchReturn" /\ last.ops # <<>>) =>
       /\ state = last.pending[Len(last.pending)].value
       /\ \A k \in 2..Len(last.ops) :
            last.pending[k].value
              \in AfterMutation(last.ops[k], last.pending[k - 1].value)

\* a batch has returned whose fn wrote a path and then cleared it: the two
\* snapshots differ and the state is the second
C34_Witness ==
  /\ last.op = "batchReturn"
  /\ Len(last.ops) = 2
  /\ last.ops[1].op = "setPath"
  /\ last.ops[2].op = "clearPath"
  /\ last.pending[1].value # last.pending[2].value
  /\ state = last.pending[2].value
  /\ Current(last.ops[1].path) = Undefined

\* C35: a subscriber that a callback of the round in progress has removed
\* before its turn is not invoked in the rest of that round: every callback
\* a round invokes belongs to a subscriber that is registered at that
\* moment.
C35_RemovedNotInvokedInRound ==
  [][(stack # <<>> /\ Len(last'.calls) > Len(last.calls)) =>
       last'.calls[Len(last'.calls)].fn \in Registered]_vars

\* the mutation call the callback fn makes when it is invoked
CallOf(fn) ==
  IF Act(fn).do = "setPath"
  THEN Mutation("setPath", Act(fn).path, Act(fn).value)
  ELSE Mutation("setState", NoPath, Act(fn).value)

\* the callback fn calls setPath or setState each time it is invoked
Writes(fn) == Act(fn).do \in {"setPath", "setState"}

\* the subscriber writes data it watches: the round of its own write
\* invokes it
Retriggers(subscriber) ==
  /\ Writes(subscriber.fn)
  /\ notifyOne(subscriber, state, WrittenBy(CallOf(subscriber.fn))) # <<>>

\* the round has invoked a subscriber that writes data it watches
InvokedRetrigger(round) ==
  \E j \in 1..(round.i - 1) :
    /\ notifyOne(round.list[j], round.value, round.paths) # <<>>
    /\ Retriggers(round.list[j])

\* C36: re-entrancy is not guarded.  When a round outside a batch invokes a
\* callback that calls setPath or setState, the write is made and its round
\* is begun at once, on top of the round in progress, which waits at the
\* subscriber it was serving; and a round that has invoked a subscriber
\* which writes data it watches never returns, so neither does the
\* mutation call that began it.
C36_ReentrantMutationRecurses ==
  [][/\ (/\ stack # <<>>
         /\ Len(last'.calls) > Len(last.calls)
         /\ Writes(last'.calls[Len(last'.calls)].fn)) =>
          /\ state' \in AfterMutation(
                           CallOf(last'.calls[Len(last'.calls)].fn), state)
          /\ Len(stack') = Len(stack) + 1
          /\ stack'[Len(stack')].value = state'
          /\ stack'[Len(stack')].i = 1
          /\ stack'[Len(stack)] = [Top EXCEPT !.i = Top.i + 1]
          /\ \A k \in 1..(Len(stack) - 1) : stack'[k] = stack[k]
     /\ Len(stack') < Len(stack) => ~InvokedRetrigger(Top)
    ]_vars

\* the recursion has reached the deepest nesting: every round but the
\* innermost waits at the subscriber "w1", which was invoked once by each of
\* them, and the first of them was begun by a setPath
C36_Witness ==
  /\ Len(stack) = MaxDepth
  /\ last.op = "setPath"
  /\ \A k \in 1..(MaxDepth - 1) :
       /\ stack[k].i > 1
       /\ stack[k].list[stack[k].i - 1].fn = "w1"
  /\ Len(CallsOf(last.calls, "w1")) = MaxDepth - 1

====
